---- MODULE Spec2Model ----
(***************************************************************************)
(* Model of src/models/mlp.py: the coordinate MLP (LightningModule) with   *)
(* its activation catalogue, sine initialisation, ray integrator and the   *)
(* training / validation / end-of-epoch handlers.                          *)
(*                                                                         *)
(* Tensors are records [shape, data] with row-major data.  Real numbers    *)
(* are exact rationals <<n, d>> (d > 0), NaN is <<0, 0>>.  Symbolic tensor *)
(* elements are 4-tuples <<tag, a, b, c>>:                                 *)
(*   <<"x", sample, point, value>>  a coordinate of a point of a sample    *)
(*   <<"e", sample, point, k>>      k-th encoder feature of that point     *)
(*   <<"z", volume, k, 0>>          k-th component of a latent code        *)
(*   <<"i", volume, 0, 0>>          a volume index                         *)
(***************************************************************************)
EXTENDS Integers, Sequences, FiniteSets, TLC

VARIABLES
    args,      \* args_dict / constructor arguments (fixed per behaviour)
    pc,        \* position inside __init__, "ready" once constructed
    self,      \* the attributes of the MLP object
    data,      \* the validation dataset (vol shape, number of valid rays)
    frame,     \* the locals of __init__ while it runs
    input,     \* the input of the pure-function specifications
    last       \* outcome of the last handler call

vars == <<args, pc, self, data, frame, input, last>>

-----------------------------------------------------------------------------
(* Bounds *)

MaxHidden  == 2   \* largest num_hidden_layers
MaxLatent  == 2   \* largest latent_size
MaxBatch   == 2   \* largest batch size B
MaxPoints  == 3   \* largest number of samples per ray / points per axis
MaxDim     == 2   \* largest extent of a volume axis
MaxBuf     == 2   \* largest number of buffered validation batches
MaxLen     == 3   \* largest ray length in the integrator specification
MaxSide    == 2   \* largest extent of a sample's point grid (imagefit)
MaxFree    == 4   \* most tensor entries enumerated independently

-----------------------------------------------------------------------------
(* Exact rational arithmetic standing for the floating-point tensors *)

RECURSIVE GCD(_, _)
GCD(a, b) == IF b = 0 THEN a ELSE GCD(b, a % b)

Abs(x) == IF x < 0 THEN -x ELSE x

NaN == <<0, 0>>

IsNaN(r) == r[2] = 0

Rat(n, d) ==
    IF d = 0 THEN NaN
    ELSE LET g == GCD(Abs(n), Abs(d))
             s == IF d < 0 THEN -1 ELSE 1
         IN <<(s * n) \div g, (s * d) \div g>>

RAdd(p, q) == IF IsNaN(p) \/ IsNaN(q) THEN NaN
              ELSE Rat(p[1] * q[2] + q[1] * p[2], p[2] * q[2])

RSub(p, q) == IF IsNaN(p) \/ IsNaN(q) THEN NaN
              ELSE Rat(p[1] * q[2] - q[1] * p[2], p[2] * q[2])

RMul(p, q) == IF IsNaN(p) \/ IsNaN(q) THEN NaN
              ELSE Rat(p[1] * q[1], p[2] * q[2])

RDiv(p, q) == IF IsNaN(p) \/ IsNaN(q) THEN NaN
              ELSE Rat(p[1] * q[2], p[2] * q[1])

RAbs(p) == <<Abs(p[1]), p[2]>>

RECURSIVE RSum(_)
RSum(s) == IF s = <<>> THEN <<0, 1>> ELSE RAdd(Head(s), RSum(Tail(s)))

\* torch mean: the mean of an empty tensor is nan
RMean(s) == RDiv(RSum(s), <<Len(s), 1>>)

\* integer square root, -1 when x is not a perfect square
ISqrt(x) == IF \E k \in 0..x : k * k = x
            THEN CHOOSE k \in 0..x : k * k = x ELSE -1

-----------------------------------------------------------------------------
(* Tensor operations (torch semantics) *)

\* the element of a singleton; {e(x) : x \in {v}} evaluates v once and
\* binds x to its value
The(S) == CHOOSE x \in S : TRUE

RECURSIVE Prod(_)
Prod(s) == IF s = <<>> THEN 1 ELSE Head(s) * Prod(Tail(s))

Tensor(shape, d) == [shape |-> shape, data |-> d]

Numel(t) == Len(t.data)

Rank(t) == Len(t.shape)

\* stride of axis i in a row-major layout
Stride(shape, i) == Prod(SubSeq(shape, i + 1, Len(shape)))

\* multi-index (0-based) of the flat offset j (0-based)
Unravel(j, shape) ==
    [i \in 1..Len(shape) |-> (j \div Stride(shape, i)) % shape[i]]

RECURSIVE Ravel(_, _)
Ravel(idx, shape) ==
    IF shape = <<>> THEN 0
    ELSE Head(idx) * Prod(Tail(shape)) + Ravel(Tail(idx), Tail(shape))

\* Tensor.view(shape): at most one entry of shape is -1 and is inferred
ViewOk(t, shape) ==
    LET known == Prod(SelectSeq(shape, LAMBDA d : d # -1))
        holes == Len(SelectSeq(shape, LAMBDA d : d = -1))
    IN IF holes = 0 THEN known = Numel(t)
       ELSE holes = 1 /\ known # 0 /\ Numel(t) % known = 0

View(t, shape) ==
    LET known == Prod(SelectSeq(shape, LAMBDA d : d # -1))
    IN Tensor([i \in 1..Len(shape) |->
                  IF shape[i] = -1 THEN Numel(t) \div known ELSE shape[i]],
              t.data)

\* Tensor.repeat(*sizes): the shape is left-padded with ones and tiled
RepeatOk(t, sizes) == Len(sizes) >= Rank(t)

Repeat(t, sizes) ==
    LET n      == Len(sizes)
        pshape == [i \in 1..n |-> IF i <= n - Rank(t) THEN 1
                                  ELSE t.shape[i - (n - Rank(t))]]
        rshape == [i \in 1..n |-> pshape[i] * sizes[i]]
        src(j) == LET ix == Unravel(j, rshape)
                  IN Ravel([i \in 1..n |-> ix[i] % pshape[i]], pshape)
    IN Tensor(rshape, [j \in 1..Prod(rshape) |-> t.data[src(j - 1) + 1]])

\* the tensor of the given shape filled with v
Const(shape, v) == Tensor(shape, [j \in 1..Prod(shape) |-> v])

\* row j (1-based) of a rank-2 tensor
Row(t, j) == SubSeq(t.data, (j - 1) * t.shape[2] + 1, j * t.shape[2])

Rows(t) == [j \in 1..t.shape[1] |-> Row(t, j)]

RECURSIVE Flatten(_)
Flatten(ss) == IF ss = <<>> THEN <<>> ELSE Head(ss) \o Flatten(Tail(ss))

\* torch.cat([a, b], dim=1); a 1-D empty tensor is skipped (legacy rule)
Cat1Ok(a, b) ==
    \/ a.shape = <<0>>
    \/ b.shape = <<0>>
    \/ Rank(a) = 2 /\ Rank(b) = 2 /\ a.shape[1] = b.shape[1]

Cat1(a, b) ==
    IF a.shape = <<0>> THEN b
    ELSE IF b.shape = <<0>> THEN a
    ELSE Tensor(<<a.shape[1], a.shape[2] + b.shape[2]>>,
                Flatten([j \in 1..a.shape[1] |-> Row(a, j) \o Row(b, j)]))

-----------------------------------------------------------------------------
(* Modules (torch.nn) *)

Linear(i, o) ==
    [kind |-> "Linear", in_f |-> i, out_f |-> o,
     w |-> <<[scheme |-> "default", c2 |-> <<0, 1>>]>>, children |-> <<>>]

Act(k) ==
    [kind |-> k, in_f |-> 0, out_f |-> 0, w |-> <<>>, children |-> <<>>]

Sequential(ch) ==
    [kind |-> "Sequential", in_f |-> 0, out_f |-> 0, w |-> <<>>,
     children |-> ch]

Unset == Act("unset")

\* names tried by the callers of the catalogue
ActivationNames ==
    {"relu", "leaky_relu", "sigmoid", "tanh", "elu", "none", "sine",
     "identity", "gelu", "ReLU"}

Raise(e, msg) == [ok |-> FALSE, error |-> e, message |-> msg, value |-> Unset]

Return(v) == [ok |-> TRUE, error |-> "", message |-> <<>>, value |-> v]

\* variant: an unknown name falls back to the identity
get_activation_function_fallback(activation_function) ==
    IF activation_function = "relu" THEN Return(Act("ReLU"))
    ELSE IF activation_function = "leaky_relu" THEN Return(Act("LeakyReLU"))
    ELSE IF activation_function = "sigmoid" THEN Return(Act("Sigmoid"))
    ELSE IF activation_function = "tanh" THEN Return(Act("Tanh"))
    ELSE IF activation_function = "elu" THEN Return(Act("ELU"))
    ELSE IF activation_function = "sine" THEN Return(Act("Sine"))
    ELSE Return(Act("Identity"))

get_activation_function(activation_function) ==
    IF activation_function = "relu" THEN Return(Act("ReLU"))
    ELSE IF activation_function = "leaky_relu" THEN Return(Act("LeakyReLU"))
    ELSE IF activation_function = "sigmoid" THEN Return(Act("Sigmoid"))
    ELSE IF activation_function = "tanh" THEN Return(Act("Tanh"))
    ELSE IF activation_function = "elu" THEN Return(Act("ELU"))
    ELSE IF activation_function = "none" THEN Return(Act("Identity"))
    ELSE IF activation_function = "sine" THEN Return(Act("Sine"))
    ELSE Raise("ValueError",
               <<"Unknown activation function: ", activation_function>>)

hasattr_weight(m) == m.kind = "Linear"

\* the square of the half-width c of uniform_(-c, c): (sqrt(6/n)/30)^2
sine_init(m) ==
    IF hasattr_weight(m)
    THEN [m EXCEPT !.w = Append(@, [scheme |-> "sine_init",
                                    c2 |-> Rat(6, 900 * m.in_f)])]
    ELSE m

\* (1/n)^2
first_layer_sine_init(m) ==
    IF hasattr_weight(m)
    THEN [m EXCEPT !.w = Append(@, [scheme |-> "first_layer_sine_init",
                                    c2 |-> Rat(1, m.in_f * m.in_f)])]
    ELSE m

CallInit(fn, m) ==
    IF fn = "sine_init" THEN sine_init(m) ELSE first_layer_sine_init(m)

\* Module.apply(fn): the children first (recursively), then the module
RECURSIVE Apply(_, _)
Apply(m, fn) ==
    CallInit(fn, [m EXCEPT !.children =
                     [i \in 1..Len(m.children) |-> Apply(m.children[i], fn)]])

-----------------------------------------------------------------------------
(* MLP.__init__ *)

EncoderDim == 2    \* output_dim of the configured encoder

NumVolumes == 2    \* num_volumes, rows of the latent table

NoSelf ==
    [imagefit_mode |-> FALSE, latent_size |-> 0,
     l1_regularization_weight |-> <<0, 1>>, encoder |-> 0, lat_vecs |-> 0,
     projection_shape |-> <<>>, mlp |-> Unset,
     validation_step_outputs |-> <<>>, validation_step_gt |-> <<>>,
     vol_shape |-> <<>>]

NoFrame == [num_input_features |-> 0, layers |-> <<>>, i |-> 0]

NoTensor == Tensor(<<0>>, <<>>)

\* what a handler's call of forward did: the feature matrix handed to the
\* layer stack, and the number of columns of vecs concatenated to it
NoFwd ==
    [called |-> FALSE, ok |-> FALSE, error |-> "", vecs_cols |-> 0,
     feat |-> NoTensor, out |-> NoTensor]

\* what the dense reconstruction pass did
NoGrid ==
    [built |-> FALSE, axes |-> <<>>, points |-> 0, evaluated |-> 0,
     assembled |-> FALSE]

NoLast ==
    [op |-> "", outcome |-> "", message |-> <<>>, ret |-> NaN,
     logged |-> {}, fwd |-> NoFwd, idxs |-> <<>>, pts_shape |-> <<>>,
     grid |-> NoGrid]

\* lines 76-106: hyperparameters, encoder, latent table
init_config(a) ==
    [NoSelf EXCEPT
        !.projection_shape = a.projection_shape,
        !.imagefit_mode = a.imagefit_mode,
        !.l1_regularization_weight = a.regularization_weight,
        !.latent_size = a.latent_size,
        !.encoder = a.encoder,
        !.lat_vecs = IF a.imagefit_mode THEN a.num_volumes ELSE 0]

init_num_input_features(a) ==
    (IF a.encoder # 0 THEN a.encoder ELSE 3)
    + (IF a.imagefit_mode THEN a.latent_size ELSE 0)

\* lines 110-112: one hidden block
hidden_block(a, act) ==
    Sequential(<<Linear(a.num_hidden_features, a.num_hidden_features), act>>)

\* lines 115-120
build_mlp(a, nif, act, layers) ==
    Sequential(<<Linear(nif, a.num_hidden_features), act>>
               \o layers
               \o <<Linear(a.num_hidden_features, 1), Act("Sigmoid")>>)

\* line 123
apply_sine_init(mlp) == Apply(mlp, "sine_init")

\* variant: the first-layer scheme applied to the whole stack
apply_first_layer_sine_init_all(mlp) == Apply(mlp, "first_layer_sine_init")

\* line 124
apply_first_layer_sine_init(mlp) ==
    [mlp EXCEPT !.children[1] = Apply(@, "first_layer_sine_init")]

InitConfig ==
    /\ pc = "start"
    /\ self' = init_config(args)
    /\ frame' = [NoFrame EXCEPT
                    !.num_input_features = init_num_input_features(args)]
    /\ pc' = "hidden"
    /\ UNCHANGED <<args, data, input, last>>

InitHiddenLayer ==
    /\ pc = "hidden"
    /\ frame.i < args.num_hidden_layers
    /\ LET r == get_activation_function(args.activation_function)
       IN IF r.ok
          THEN /\ frame' = [frame EXCEPT
                              !.layers = Append(@, hidden_block(args, r.value)),
                              !.i = @ + 1]
               /\ UNCHANGED <<pc, last>>
          ELSE /\ pc' = "raised"
               /\ last' = [NoLast EXCEPT !.op = "__init__",
                              !.outcome = r.error, !.message = r.message]
               /\ UNCHANGED frame
    /\ UNCHANGED <<args, self, data, input>>

InitStack ==
    /\ pc = "hidden"
    /\ frame.i = args.num_hidden_layers
    /\ LET r == get_activation_function(args.activation_function)
       IN IF r.ok
          THEN /\ self' = [self EXCEPT !.mlp =
                             build_mlp(args, frame.num_input_features,
                                       r.value, frame.layers)]
               /\ pc' = "sine"
               /\ UNCHANGED last
          ELSE /\ pc' = "raised"
               /\ last' = [NoLast EXCEPT !.op = "__init__",
                              !.outcome = r.error, !.message = r.message]
               /\ UNCHANGED self
    /\ UNCHANGED <<args, frame, data, input>>

InitSineAll ==
    /\ pc = "sine"
    /\ args.activation_function = "sine"
    /\ self' = [self EXCEPT !.mlp = apply_sine_init(@)]
    /\ pc' = "first"
    /\ UNCHANGED <<args, frame, data, input, last>>

InitSineFirst ==
    /\ pc = "first"
    /\ self' = [self EXCEPT !.mlp = apply_first_layer_sine_init(@)]
    /\ pc' = "rest"
    /\ UNCHANGED <<args, frame, data, input, last>>

InitNoSine ==
    /\ pc = "sine"
    /\ args.activation_function # "sine"
    /\ pc' = "rest"
    /\ UNCHANGED <<args, self, frame, data, input, last>>

\* lines 126-130
InitFinish ==
    /\ pc = "rest"
    /\ self' = [self EXCEPT !.validation_step_outputs = <<>>,
                            !.validation_step_gt = <<>>]
    /\ frame' = NoFrame
    /\ last' = [NoLast EXCEPT !.op = "__init__", !.outcome = "ok"]
    /\ pc' = "ready"
    /\ UNCHANGED <<args, data, input>>

ArgsSet ==
    [encoder : {0, EncoderDim},
     imagefit_mode : BOOLEAN,
     activation_function : ActivationNames,
     num_hidden_layers : 0..MaxHidden,
     num_hidden_features : {2, 3},
     latent_size : 1..MaxLatent,
     regularization_weight : {<<1, 2>>},
     num_volumes : {NumVolumes},
     projection_shape : {<<2, 1, 2>>}]

NoData == [vol_shape |-> <<>>, valid_rays |-> 0]

InitCtor ==
    /\ args \in ArgsSet
    /\ pc = "start"
    /\ self = NoSelf
    /\ frame = NoFrame
    /\ data = NoData
    /\ input = <<>>
    /\ last = NoLast

NextCtor ==
    \/ InitConfig
    \/ InitHiddenLayer
    \/ InitStack
    \/ InitSineAll
    \/ InitSineFirst
    \/ InitNoSine
    \/ InitFinish

SpecCtor == InitCtor /\ [][NextCtor]_vars

-----------------------------------------------------------------------------
(* MLP.forward *)

\* encoder(pts): [N, 3] -> [N, output_dim], one feature row per point
Encoder(pts, dim) ==
    Tensor(<<pts.shape[1], dim>>,
           Flatten([j \in 1..pts.shape[1] |->
                       [k \in 1..dim |->
                           <<"e", Row(pts, j)[1][2], Row(pts, j)[1][3], k>>]]))

FwdRaise(e, vecs, feat) ==
    [NoFwd EXCEPT !.called = TRUE, !.error = e, !.feat = feat,
                  !.vecs_cols = IF Rank(vecs) = 2 THEN vecs.shape[2] ELSE 0]

\* lines 134-144: the matrix handed to self.mlp
forward_features(obj, pts, vecs) ==
    IF Rank(pts) > 2 /\ ~ViewOk(pts, <<-1, 3>>)
    THEN FwdRaise("RuntimeError", vecs, NoTensor)
    ELSE The({
        The({
            IF ~Cat1Ok(vecs, enc)
            THEN FwdRaise("RuntimeError", vecs, NoTensor)
            ELSE The({
                IF feat.shape[2] # obj.mlp.children[1].in_f
                THEN FwdRaise("RuntimeError", vecs, feat)
                ELSE [FwdRaise("", vecs, feat) EXCEPT !.ok = TRUE] :
                feat \in {Cat1(vecs, enc)}}) :
            enc \in {IF obj.encoder # 0 THEN Encoder(p2, obj.encoder)
                     ELSE p2}}) :
        p2 \in {IF Rank(pts) > 2 THEN View(pts, <<-1, 3>>) ELSE pts}})

\* the rows the layer stack is evaluated on
FeatureRows(obj, pts, vecs) ==
    UNION {IF f.ok THEN {Row(f.feat, j) : j \in 1..f.feat.shape[1]} ELSE {} :
           f \in {forward_features(obj, pts, vecs)}}

\* variant: the output is returned as the layer stack produced it
forward_flat(obj, pts, vecs, net) ==
    The({IF ~f.ok THEN f
         ELSE [f EXCEPT !.out =
                  Tensor(<<f.feat.shape[1], 1>>,
                         [j \in 1..f.feat.shape[1] |-> net[Row(f.feat, j)]])] :
         f \in {forward_features(obj, pts, vecs)}})

\* lines 133-151; net is the function the layer stack computes on a row
forward(obj, pts, vecs, net) ==
    The({
        IF ~f.ok THEN f
        ELSE The({
            IF Rank(pts) > 2
            THEN IF ViewOk(out, SubSeq(pts.shape, 1, Rank(pts) - 1) \o <<-1>>)
                 THEN [f EXCEPT !.out =
                          View(out, SubSeq(pts.shape, 1, Rank(pts) - 1)
                                    \o <<-1>>)]
                 ELSE [f EXCEPT !.ok = FALSE, !.error = "RuntimeError"]
            ELSE [f EXCEPT !.out = out] :
            out \in {Tensor(<<f.feat.shape[1], 1>>,
                            [j \in 1..f.feat.shape[1] |->
                                net[Row(f.feat, j)]])}}) :
        f \in {forward_features(obj, pts, vecs)}})

-----------------------------------------------------------------------------
(* Losses and the ray integrator *)

\* torch.nn.MSELoss()(a, b), a and b of the same shape
MSELoss(a, b) ==
    RMean([j \in 1..Numel(a) |->
              RMul(RSub(a.data[j], b.data[j]), RSub(a.data[j], b.data[j]))])

\* torch.nn.L1Loss()(a, b), a and b of the same shape
L1Loss(a, b) ==
    RMean([j \in 1..Numel(a) |-> RAbs(RSub(a.data[j], b.data[j]))])

\* t[:, lo:hi] of a rank-2 tensor, columns lo..hi (1-based, inclusive)
Cols(t, lo, hi) ==
    Tensor(<<t.shape[1], hi - lo + 1>>,
           Flatten([j \in 1..t.shape[1] |-> SubSeq(Row(t, j), lo, hi)]))

\* variant: the spacing of num_points - 1 intervals
compute_projection_values_intervals(num_points, attenuation_values, lengths) ==
    LET dx == [b \in 1..Numel(lengths) |->
                  RDiv(lengths.data[b], <<num_points - 1, 1>>)]
        attenuation_sum ==
            [b \in 1..attenuation_values.shape[1] |->
                RSum([i \in 1..attenuation_values.shape[2] |->
                         RMul(Row(attenuation_values, b)[i], dx[b])])]
    IN Tensor(<<attenuation_values.shape[1]>>, attenuation_sum)

\* lines 53-65
compute_projection_values(num_points, attenuation_values, lengths) ==
    LET dx == [b \in 1..Numel(lengths) |->
                  RDiv(lengths.data[b], <<num_points, 1>>)]
        attenuation_sum ==
            [b \in 1..attenuation_values.shape[1] |->
                RSum([i \in 1..attenuation_values.shape[2] |->
                         RMul(Row(attenuation_values, b)[i], dx[b])])]
    IN Tensor(<<attenuation_values.shape[1]>>, attenuation_sum)

\* torch.linalg.norm(points[:,-1,:] - points[:,0,:], dim=1), points [B,R,3]
ray_lengths(points) ==
    LET R == points.shape[2]
        at(b, p, k) == points.data[((b - 1) * R + (p - 1)) * 3 + k][4]
        sq(b) == (at(b, R, 1) - at(b, 1, 1)) * (at(b, R, 1) - at(b, 1, 1))
               + (at(b, R, 2) - at(b, 1, 2)) * (at(b, R, 2) - at(b, 1, 2))
               + (at(b, R, 3) - at(b, 1, 3)) * (at(b, R, 3) - at(b, 1, 3))
    IN Tensor(<<points.shape[1]>>,
              [b \in 1..points.shape[1] |-> <<ISqrt(sq(b)), 1>>])

\* self.lat_vecs(idxs): one latent row per index
EmbeddingOk(obj, idxs) ==
    \A j \in 1..Numel(idxs) : idxs.data[j][2] \in 0..(obj.lat_vecs - 1)

Embedding(obj, idxs) ==
    Tensor(idxs.shape \o <<obj.latent_size>>,
           Flatten([j \in 1..Numel(idxs) |->
                       [k \in 1..obj.latent_size |->
                           <<"z", idxs.data[j][2], k, 0>>]]))

-----------------------------------------------------------------------------
(* MLP.training_step and MLP.validation_step *)

\* the result of a handler: its outcome, the value it returns, what it
\* logged, its forward call and the two validation buffers afterwards
Result(obj, outcome, ret, logged, fwd) ==
    [outcome |-> outcome, ret |-> ret, logged |-> logged, fwd |-> fwd,
     outputs |-> obj.validation_step_outputs,
     gt |-> obj.validation_step_gt]

\* line 157 / 198: self.lat_vecs(idxs).repeat(1, shape[1], shape[2], 1)
\*                     .view(-1, self.latent_size)
imagefit_vecs_error(obj, batch) ==
    IF Rank(batch.points) < 3 THEN "IndexError"
    ELSE IF ~EmbeddingOk(obj, batch.idxs) THEN "IndexError"
    ELSE IF ~RepeatOk(Embedding(obj, batch.idxs),
                      <<1, batch.points.shape[2], batch.points.shape[3], 1>>)
    THEN "RuntimeError"
    ELSE ""

imagefit_vecs(obj, batch) ==
    View(Repeat(Embedding(obj, batch.idxs),
                <<1, batch.points.shape[2], batch.points.shape[3], 1>>),
         <<-1, obj.latent_size>>)

\* the second argument of the step's forward call
step_vecs(obj, batch) ==
    IF obj.imagefit_mode THEN imagefit_vecs(obj, batch) ELSE batch.idxs

\* the rows the layer stack sees in a step on this batch
StepRows(obj, batch) ==
    IF obj.imagefit_mode /\ imagefit_vecs_error(obj, batch) # "" THEN {}
    ELSE FeatureRows(obj, batch.points, step_vecs(obj, batch))

\* variant: the differences taken over the flattened samples, across rays
smoothness_flat(att) ==
    L1Loss(Tensor(<<Numel(att) - 1>>, SubSeq(att.data, 2, Numel(att))),
           Tensor(<<Numel(att) - 1>>, SubSeq(att.data, 1, Numel(att) - 1)))

\* line 177 / 210: self.l1_regularization(att[:,1:], att[:,:-1])
smoothness(att) ==
    L1Loss(Cols(att, 2, att.shape[2]), Cols(att, 1, att.shape[2] - 1))

\* lines 157-160 / 198-201
imagefit_loss(obj, batch, net) ==
    IF imagefit_vecs_error(obj, batch) # ""
    THEN [ok |-> FALSE, error |-> imagefit_vecs_error(obj, batch),
          fwd |-> NoFwd, att |-> NoTensor, loss |-> NaN]
    ELSE The({
        IF ~f.ok
        THEN [ok |-> FALSE, error |-> f.error, fwd |-> f, att |-> NoTensor,
              loss |-> NaN]
        ELSE IF ~ViewOk(f.out, batch.target.shape)
        THEN [ok |-> FALSE, error |-> "RuntimeError", fwd |-> f,
              att |-> NoTensor, loss |-> NaN]
        ELSE The({[ok |-> TRUE, error |-> "", fwd |-> f, att |-> att,
                   loss |-> MSELoss(att, batch.target)] :
                  att \in {View(f.out, batch.target.shape)}}) :
        f \in {The({forward(obj, batch.points, vecs, net) :
                       vecs \in {imagefit_vecs(obj, batch)}})}})

\* lines 173-180 / 206-217, points of shape [B, R, 3]
projection_loss(obj, batch, net) ==
    The({
        IF ~f.ok
        THEN [ok |-> FALSE, error |-> f.error, fwd |-> f, hat |-> NoTensor,
              loss |-> NaN, smoothness_loss |-> NaN, total_loss |-> NaN]
        ELSE IF ~ViewOk(f.out, <<batch.points.shape[1],
                                 batch.points.shape[2]>>)
        THEN [ok |-> FALSE, error |-> "RuntimeError", fwd |-> f,
              hat |-> NoTensor, loss |-> NaN, smoothness_loss |-> NaN,
              total_loss |-> NaN]
        ELSE The({
            The({
                The({[ok |-> TRUE, error |-> "", fwd |-> f, hat |-> hat,
                      loss |-> loss, smoothness_loss |-> smoothness_loss,
                      total_loss |->
                          RAdd(loss, RMul(obj.l1_regularization_weight,
                                          smoothness_loss))] :
                     smoothness_loss \in {smoothness(att)},
                     loss \in {MSELoss(hat, batch.target)}}) :
                hat \in {The({compute_projection_values(
                                  batch.points.shape[2], att, lengths) :
                              lengths \in {ray_lengths(batch.points)}})}}) :
            att \in {View(f.out, <<batch.points.shape[1],
                                   batch.points.shape[2]>>)}}) :
        f \in {forward(obj, batch.points, batch.idxs, net)}})

\* lines 153-193
training_step(obj, batch, net) ==
    IF obj.imagefit_mode
    THEN The({IF ~r.ok THEN Result(obj, r.error, NaN, {}, r.fwd)
              ELSE Result(obj, "ok", r.loss, {<<"train/loss", r.loss>>},
                          r.fwd) :
              r \in {imagefit_loss(obj, batch, net)}})
    ELSE The({IF ~r.ok THEN Result(obj, r.error, NaN, {}, r.fwd)
              ELSE Result(obj, "ok", r.total_loss,
                          {<<"train/loss", r.loss>>,
                           <<"train/loss_total", r.total_loss>>,
                           <<"train/l1_regularization", r.smoothness_loss>>},
                          r.fwd) :
              r \in {projection_loss(obj, batch, net)}})

\* lines 195-228: the imagefit branch binds neither total_loss nor
\* smoothness_loss, so building the log dictionary raises
validation_step(obj, batch, net) ==
    IF obj.imagefit_mode
    THEN The({IF ~r.ok THEN Result(obj, r.error, NaN, {}, r.fwd)
              ELSE [Result(obj, "UnboundLocalError", NaN, {}, r.fwd) EXCEPT
                       !.outputs = Append(@, r.att),
                       !.gt = Append(@, batch.target)] :
              r \in {imagefit_loss(obj, batch, net)}})
    ELSE The({IF ~r.ok THEN Result(obj, r.error, NaN, {}, r.fwd)
              ELSE [Result(obj, "ok", NaN,
                           {<<"val/loss", r.loss>>,
                            <<"val/loss_total", r.total_loss>>,
                            <<"val/l1_regularization", r.smoothness_loss>>},
                           r.fwd) EXCEPT
                       !.outputs = Append(@, r.hat),
                       !.gt = Append(@, batch.target)] :
              r \in {projection_loss(obj, batch, net)}})

-----------------------------------------------------------------------------
(* MLP.on_validation_epoch_end *)

\* torch.cat(list) along dim 0
CatListOk(ts) ==
    /\ ts # <<>>
    /\ \A i \in 1..Len(ts) : /\ Rank(ts[i]) >= 1
                             /\ Tail(ts[i].shape) = Tail(ts[1].shape)

RECURSIVE SumSeq(_)
SumSeq(s) == IF s = <<>> THEN 0 ELSE Head(s) + SumSeq(Tail(s))

CatList(ts) ==
    Tensor(<<SumSeq([i \in 1..Len(ts) |-> ts[i].shape[1]])>>
               \o Tail(ts[1].shape),
           Flatten([i \in 1..Len(ts) |-> ts[i].data]))

\* torch.stack(torch.meshgrid(linspace(-1,1,n0), linspace(-1,1,n0),
\*                            linspace(-1,1,n0)), dim=-1): line 253 uses
\* vol.shape[0] for each of the three axes
mgrid_axes(vol_shape) == <<vol_shape[1], vol_shape[1], vol_shape[1]>>

mgrid(vol_shape) ==
    Tensor(mgrid_axes(vol_shape) \o <<3>>,
           [j \in 1..(Prod(mgrid_axes(vol_shape)) * 3) |->
               <<"x", 0, (j - 1) \div 3 + 1, 0>>])

EpochStop(obj, outcome, logged, vol_shape, grid) ==
    [outcome |-> outcome, logged |-> logged, vol_shape |-> vol_shape,
     grid |-> grid,
     outputs |-> obj.validation_step_outputs,
     gt |-> obj.validation_step_gt]

\* lines 273-274
EpochDone(obj, logged, vol_shape, grid) ==
    [EpochStop(obj, "ok", logged, vol_shape, grid) EXCEPT
        !.outputs = <<>>, !.gt = <<>>]

\* lines 252-270; forward takes (pts, vecs) and line 258 passes pts only
dense_reconstruction(obj, d, logged) ==
    The({
        IF ~ViewOk(g, <<-1, vs[3], 3>>)
        THEN EpochStop(obj, "RuntimeError", logged, vs, grid)
        ELSE The({
            IF g2.shape[2] > 0
            THEN EpochStop(obj, "TypeError", logged, vs, grid)
            ELSE The({
                IF ~ViewOk(outputs, vs)
                THEN EpochStop(obj, "RuntimeError", logged, vs, grid)
                ELSE EpochDone(obj,
                               logged \cup {"val/loss_reconstruction",
                                            "val/reconstruction"},
                               vs, [grid EXCEPT !.assembled = TRUE]) :
                outputs \in {Const(<<g2.shape[1], g2.shape[2], 1>>,
                                   <<0, 1>>)}}) :
            g2 \in {View(g, <<-1, vs[3], 3>>)}}) :
        vs \in {d.vol_shape},
        g \in {mgrid(d.vol_shape)},
        grid \in {[NoGrid EXCEPT !.built = TRUE,
                                 !.axes = mgrid_axes(d.vol_shape),
                                 !.points = Prod(mgrid_axes(d.vol_shape))]}})

\* lines 231-274; d is self.trainer.val_dataloaders.dataset
on_validation_epoch_end(obj, d) ==
    IF ~CatListOk(obj.validation_step_outputs)
       \/ ~CatListOk(obj.validation_step_gt)
    THEN EpochStop(obj, "RuntimeError", {}, obj.vol_shape, NoGrid)
    ELSE The({
        IF obj.imagefit_mode
        THEN IF ~ViewOk(all_preds, d.vol_shape)
                \/ ~ViewOk(all_gt, d.vol_shape)
             THEN EpochStop(obj, "RuntimeError", {}, d.vol_shape, NoGrid)
             ELSE IF d.vol_shape[3] \div 2 >= d.vol_shape[1]
             THEN EpochStop(obj, "IndexError", {}, d.vol_shape, NoGrid)
             ELSE EpochDone(obj, {"val/reconstruction"}, d.vol_shape, NoGrid)
        ELSE IF /\ Numel(all_preds) # d.valid_rays
                /\ Numel(all_preds) # 1
             THEN EpochStop(obj, "RuntimeError", {}, d.vol_shape, NoGrid)
             ELSE dense_reconstruction(obj, d, {"val/projection"}) :
        all_preds \in {CatList(obj.validation_step_outputs)},
        all_gt \in {CatList(obj.validation_step_gt)}})

-----------------------------------------------------------------------------
(* The object after __init__ returned, and the batches of the data source *)

Constructed(a) ==
    LET r      == get_activation_function(a.activation_function)
        layers == [i \in 1..a.num_hidden_layers |-> hidden_block(a, r.value)]
        m      == build_mlp(a, init_num_input_features(a), r.value, layers)
    IN [init_config(a) EXCEPT !.mlp =
           IF a.activation_function = "sine"
           THEN apply_first_layer_sine_init(apply_sine_init(m))
           ELSE m]

\* configurations of the step specifications
ArgsStep ==
    {a \in ArgsSet : /\ a.activation_function = "relu"
                     /\ a.num_hidden_layers = 1
                     /\ a.num_hidden_features = 2
                     /\ (~a.imagefit_mode => a.latent_size = 1)}

\* points of shape lead \o <<3>>: lead[1] samples of Prod(Tail(lead)) points,
\* point p of sample b at origin[b] + (p - 1) * step[b]
MakePoints(lead, origin, step) ==
    Tensor(lead \o <<3>>,
           Flatten([j \in 1..Prod(lead) |->
               LET b == (j - 1) \div Prod(Tail(lead)) + 1
                   p == ((j - 1) % Prod(Tail(lead))) + 1
               IN [k \in 1..3 |->
                      <<"x", b, p, origin[b][k] + (p - 1) * step[b][k]>>]]))

IdxTensor(idx) == Tensor(<<Len(idx)>>, [b \in 1..Len(idx) |-> <<"i", idx[b], 0, 0>>])

Zero3(B) == [b \in 1..B |-> <<0, 0, 0>>]

ImagefitBatch(lead, idx, t) ==
    [points |-> MakePoints(lead, Zero3(lead[1]), Zero3(lead[1])),
     target |-> Const(lead, t),
     idxs   |-> IdxTensor(idx)]

\* the third element of a projection batch, as the data source shapes it:
\* one index per ray, nothing per point, or one index per point
IdxKinds == {"per_ray", "empty", "per_point"}

ProjectionIdxs(kind, B, R) ==
    IF kind = "per_ray" THEN IdxTensor([b \in 1..B |-> 0])
    ELSE IF kind = "empty" THEN Tensor(<<B * R, 0>>, <<>>)
    ELSE Tensor(<<B * R, 1>>, [j \in 1..(B * R) |-> <<"i", 0, 0, 0>>])

\* ray b starts at <<b, 0, 0>> and advances by step[b] per sample
ProjectionBatch(B, R, step, tgt, kind) ==
    [points |-> MakePoints(<<B, R>>, [b \in 1..B |-> <<b, 0, 0>>], step),
     target |-> Tensor(<<B>>, tgt),
     idxs   |-> ProjectionIdxs(kind, B, R)]

RaySteps == {<<1, 0, 0>>, <<0, 2, 0>>}

\* the batches of the attached data source: in imagefit mode a sample is a
\* slice of the volume, in projection mode a ray of MaxPoints samples
Batches(obj, d) ==
    IF obj.imagefit_mode
    THEN {ImagefitBatch(<<Len(idx), d.vol_shape[2], d.vol_shape[3]>>, idx,
                        <<1, 2>>) :
            idx \in UNION {[1..B -> 0..(NumVolumes - 1)] : B \in 1..MaxBatch}}
    ELSE {ProjectionBatch(B, MaxPoints, [b \in 1..B |-> <<1, 0, 0>>],
                          [b \in 1..B |-> <<1, 1>>], kind) :
            B \in 1..MaxBatch, kind \in IdxKinds}

\* the function computed by the layer stack, here constant
SmallNets(rows) == {[r \in rows |-> <<1, 2>>]}

-----------------------------------------------------------------------------
(* The handlers as actions *)

Pairs(keys) == {<<k, NaN>> : k \in keys}

TrainingStep ==
    /\ pc = "ready"
    /\ \E batch \in Batches(self, data) :
         \E net \in SmallNets(StepRows(self, batch)) :
           \E r \in {training_step(self, batch, net)} :
              last' = [NoLast EXCEPT
                          !.op = "training_step", !.outcome = r.outcome,
                          !.ret = r.ret, !.logged = r.logged, !.fwd = r.fwd,
                          !.idxs = batch.idxs.data,
                          !.pts_shape = batch.points.shape]
    /\ UNCHANGED <<args, pc, self, data, frame, input>>

ValidationStep ==
    /\ pc = "ready"
    /\ Len(self.validation_step_outputs) < MaxBuf
    /\ \E batch \in Batches(self, data) :
         \E net \in SmallNets(StepRows(self, batch)) :
           \E r \in {validation_step(self, batch, net)} :
              /\ self' = [self EXCEPT
                             !.validation_step_outputs = r.outputs,
                             !.validation_step_gt = r.gt]
              /\ last' = [NoLast EXCEPT
                             !.op = "validation_step", !.outcome = r.outcome,
                             !.ret = r.ret, !.logged = r.logged,
                             !.fwd = r.fwd, !.idxs = batch.idxs.data,
                             !.pts_shape = batch.points.shape]
    /\ UNCHANGED <<args, pc, data, frame, input>>

OnValidationEpochEnd ==
    /\ pc = "ready"
    /\ \E r \in {on_validation_epoch_end(self, data)} :
          /\ self' = [self EXCEPT
                         !.validation_step_outputs = r.outputs,
                         !.validation_step_gt = r.gt,
                         !.vol_shape = r.vol_shape]
          /\ last' = [NoLast EXCEPT
                         !.op = "on_validation_epoch_end",
                         !.outcome = r.outcome, !.logged = Pairs(r.logged),
                         !.grid = r.grid]
    /\ UNCHANGED <<args, pc, data, frame, input>>

ValidRays == 2

VolShapes == {<<a, b, c>> : a \in 1..MaxDim, b \in 1..MaxDim, c \in 1..MaxDim}

Init ==
    /\ args \in ArgsStep
    /\ pc = "ready"
    /\ self = Constructed(args)
    /\ frame = NoFrame
    /\ data \in [vol_shape : VolShapes, valid_rays : {ValidRays}]
    /\ input = <<>>
    /\ last = [NoLast EXCEPT !.op = "__init__", !.outcome = "ok"]

Next ==
    \/ TrainingStep
    \/ ValidationStep
    \/ OnValidationEpochEnd

Spec == Init /\ [][Next]_vars

-----------------------------------------------------------------------------
(* The handlers and the pure functions applied to enumerated inputs *)

Dens == {<<1, 4>>, <<1, 2>>}         \* values of the layer stack, in (0,1)

Targets == {<<1, 2>>, <<1, 1>>}

\* the functions the layer stack may compute on the rows of a batch: every
\* function for up to MaxFree rows, beyond that the functions that are
\* constant except on one row
Nets(rows) ==
    IF Cardinality(rows) <= MaxFree THEN [rows -> Dens]
    ELSE {[r \in rows |-> IF r = r0 THEN d1 ELSE d0] :
             r0 \in rows, d0 \in Dens, d1 \in Dens}

NoInput ==
    [kind |-> "", batch |-> <<>>, net |-> <<>>, pts |-> NoTensor,
     vecs |-> NoTensor, num_points |-> 0, att |-> NoTensor,
     lengths |-> NoTensor]

ImagefitLeads ==
    {<<B>> : B \in 1..MaxBatch}
    \cup {<<B, H>> : B \in 1..MaxBatch, H \in 1..MaxSide}
    \cup {<<B, H, W>> : B \in 1..MaxBatch, H \in 1..MaxSide, W \in 1..MaxSide}

\* the rays of a batch advance all by the same step, or alternate between
\* two different steps
StepChoices(B) ==
    {[b \in 1..B |-> s] : s \in RaySteps}
    \cup {[b \in 1..B |-> IF b % 2 = 1 THEN <<1, 0, 0>> ELSE <<0, 2, 0>>]}

TrainBatches(obj) ==
    IF obj.imagefit_mode
    THEN {ImagefitBatch(lead, idx, <<1, 2>>) :
            lead \in ImagefitLeads,
            idx \in UNION {[1..B -> 0..(NumVolumes - 1)] : B \in 1..MaxBatch}}
    ELSE UNION {{ProjectionBatch(B, R, step, tgt, kind) :
                    step \in StepChoices(B), tgt \in [1..B -> Targets],
                    R \in 1..MaxPoints, kind \in IdxKinds} :
                B \in 1..MaxBatch}

TrainInputs(obj) ==
    UNION {{[NoInput EXCEPT !.kind = "training_step", !.batch = batch,
                            !.net = net] :
               net \in Nets(StepRows(obj, batch))} :
           batch \in {b \in TrainBatches(obj) :
                         Len(b.idxs.data) = b.points.shape[1]
                         \/ ~obj.imagefit_mode}}

\* direct calls of forward: rank-2, rank-3 and rank-4 points, and a vecs
\* matrix of any row and column count
ForwardPoints ==
    {MakePoints(lead, Zero3(lead[1]), Zero3(lead[1])) :
        lead \in {<<B>> : B \in 1..MaxBatch}
                 \cup {<<B, R>> : B \in 1..MaxBatch, R \in 1..MaxPoints}
                 \cup {<<B, H, W>> : B \in 1..MaxBatch, H \in 1..MaxSide,
                                     W \in 1..MaxSide}}

ForwardVecs(pts) ==
    {Tensor(<<m, k>>, [j \in 1..(m * k) |-> <<"z", 0, ((j - 1) % k) + 1, 0>>]) :
        m \in {Numel(pts) \div 3, Numel(pts) \div 3 + 1},
        k \in 0..MaxLatent}

ForwardInputs(obj) ==
    UNION {UNION {{[NoInput EXCEPT !.kind = "forward", !.pts = pts,
                                   !.vecs = v, !.net = net] :
                      net \in SmallNets(FeatureRows(obj, pts, v))} :
                  v \in ForwardVecs(pts)} :
           pts \in ForwardPoints}

IntegrateDens == {<<1, 3>>, <<2, 1>>}

\* the densities of a batch of B rays of N samples: every assignment for up
\* to MaxFree entries, beyond that each ray uniform or a ramp
IntegrateAtts(B, N) ==
    IF B * N <= MaxFree THEN [1..(B * N) -> IntegrateDens]
    ELSE {Flatten([b \in 1..B |->
                     [i \in 1..N |-> IF c[b] = <<0, 1>> THEN <<i, 1>>
                                     ELSE c[b]]]) :
             c \in [1..B -> IntegrateDens \cup {<<0, 1>>}]}

IntegrateInputs ==
    UNION {{[NoInput EXCEPT
                !.kind = "integrate", !.num_points = N,
                !.att = Tensor(<<B, N>>, a),
                !.lengths = Tensor(<<B>>, [b \in 1..B |-> <<l[b], 1>>])] :
               a \in IntegrateAtts(B, N),
               l \in [1..B -> 1..MaxLen]} :
           B \in 1..MaxBatch, N \in 1..MaxPoints}

ArgsFn == {a \in ArgsStep : a.imagefit_mode => a.latent_size = MaxLatent}

InitFn ==
    /\ args \in ArgsFn
    /\ pc = "ready"
    /\ self = Constructed(args)
    /\ frame = NoFrame
    /\ data = NoData
    /\ \/ input \in TrainInputs(self)
       \/ input \in ForwardInputs(self)
       \/ /\ ~args.imagefit_mode
          /\ args.encoder = 0
          /\ input \in IntegrateInputs
    /\ last = [NoLast EXCEPT !.op = "__init__", !.outcome = "ok"]

ApplyTrainingStep ==
    /\ input.kind = "training_step"
    /\ last.op = "__init__"
    /\ \E r \in {training_step(self, input.batch, input.net)} :
          last' = [NoLast EXCEPT
                      !.op = "training_step", !.outcome = r.outcome,
                      !.ret = r.ret, !.logged = r.logged, !.fwd = r.fwd,
                      !.idxs = input.batch.idxs.data,
                      !.pts_shape = input.batch.points.shape]
    /\ UNCHANGED <<args, pc, self, data, frame, input>>

ApplyForward ==
    /\ input.kind = "forward"
    /\ last.op = "__init__"
    /\ \E f \in {forward(self, input.pts, input.vecs, input.net)} :
          last' = [NoLast EXCEPT
                      !.op = "forward",
                      !.outcome = IF f.ok THEN "ok" ELSE f.error,
                      !.fwd = f, !.pts_shape = input.pts.shape]
    /\ UNCHANGED <<args, pc, self, data, frame, input>>

ApplyIntegrate ==
    /\ input.kind = "integrate"
    /\ last.op = "__init__"
    /\ last' = [NoLast EXCEPT
                   !.op = "compute_projection_values", !.outcome = "ok",
                   !.fwd = [NoFwd EXCEPT !.out =
                               compute_projection_values(
                                   input.num_points, input.att,
                                   input.lengths)]]
    /\ UNCHANGED <<args, pc, self, data, frame, input>>

NextFn ==
    \/ ApplyTrainingStep
    \/ ApplyForward
    \/ ApplyIntegrate

SpecFn == InitFn /\ [][NextFn]_vars

-----------------------------------------------------------------------------
(* Properties of the construction (SpecCtor) *)

Supported == {"none", "relu", "leaky_relu", "sigmoid", "tanh", "elu", "sine"}

ExpectedModule(name) ==
    CASE name = "none" -> "Identity"
      [] name = "relu" -> "ReLU"
      [] name = "leaky_relu" -> "LeakyReLU"
      [] name = "sigmoid" -> "Sigmoid"
      [] name = "tanh" -> "Tanh"
      [] name = "elu" -> "ELU"
      [] name = "sine" -> "Sine"

\* every Linear module below m, in definition order
RECURSIVE LinearsOf(_)
LinearsOf(m) ==
    IF m.kind = "Linear" THEN <<m>>
    ELSE Flatten([i \in 1..Len(m.children) |-> LinearsOf(m.children[i])])

\* the activation modules the constructor obtained so far
ActivationsBuilt ==
    {frame.layers[i].children[2].kind : i \in 1..Len(frame.layers)}
    \cup (IF self.mlp = Unset THEN {}
          ELSE {self.mlp.children[2].kind}
               \cup {self.mlp.children[2 + i].children[2].kind :
                        i \in 1..args.num_hidden_layers})

\* C4: the catalogue yields an activation for exactly the seven supported
\* names; any other name raises a ValueError whose message carries the name,
\* during construction, before a hidden block or the layer stack exists.
C4_UnsupportedActivation ==
    /\ args.activation_function \in Supported =>
          /\ pc # "raised"
          /\ ActivationsBuilt
                \subseteq {ExpectedModule(args.activation_function)}
    /\ args.activation_function \notin Supported =>
          /\ pc \in {"start", "hidden", "raised"}
          /\ ActivationsBuilt = {}
          /\ frame.layers = <<>>
          /\ self.mlp = Unset
          /\ pc = "raised" =>
                /\ last.op = "__init__"
                /\ last.outcome = "ValueError"
                /\ last.message[Len(last.message)] = args.activation_function

C4_Witness ==
    /\ pc = "raised"
    /\ args.activation_function = "identity"
    /\ args.num_hidden_layers >= 1

DefaultWrite == [scheme |-> "default", c2 |-> <<0, 1>>]

GeneralWrite(m) == [scheme |-> "sine_init", c2 |-> Rat(6, 900 * m.in_f)]

FirstWrite(m) ==
    [scheme |-> "first_layer_sine_init", c2 |-> Rat(1, m.in_f * m.in_f)]

\* C7: with the sine activation the first linear layer is written by the
\* general scheme and then, last, by the first-layer scheme; every other
\* linear layer (nested hidden ones and the output layer) is written by the
\* general scheme only; without sine no layer is written by either scheme.
C7_SineInitOrder ==
    LET ls == LinearsOf(self.mlp)
    IN /\ pc \in {"sine", "first", "rest", "ready"} =>
             Len(ls) = args.num_hidden_layers + 2
       /\ pc = "first" =>
             \A i \in 1..Len(ls) : ls[i].w = <<DefaultWrite, GeneralWrite(ls[i])>>
       /\ (pc \in {"rest", "ready"} /\ args.activation_function = "sine") =>
             /\ ls[1].w = <<DefaultWrite, GeneralWrite(ls[1]), FirstWrite(ls[1])>>
             /\ \A i \in 2..Len(ls) :
                   ls[i].w = <<DefaultWrite, GeneralWrite(ls[i])>>
       /\ (pc \in {"sine", "rest", "ready"}
           /\ args.activation_function # "sine") =>
             \A i \in 1..Len(ls) : ls[i].w = <<DefaultWrite>>

C7_Witness ==
    /\ pc = "ready"
    /\ args.activation_function = "sine"
    /\ args.num_hidden_layers = MaxHidden
    /\ Len(LinearsOf(self.mlp)) = MaxHidden + 2

\* the stepwise constructor ends in the object the step specifications use
CtorAgrees == pc = "ready" => self = Constructed(args)

-----------------------------------------------------------------------------
(* Properties of the pure functions and of training_step (SpecFn) *)

RowConstant(t, b) == \A i \in 1..t.shape[2] : Row(t, b)[i] = Row(t, b)[1]

\* C5: a ray of N >= 1 samples of one density c and length L > 0 integrates
\* to c * L, each ray of the batch with its own length and its own samples.
C5_UniformDensity ==
    last.op = "compute_projection_values" =>
        /\ last.fwd.out.shape = <<input.att.shape[1]>>
        /\ \A b \in 1..input.att.shape[1] :
              RowConstant(input.att, b) =>
                  last.fwd.out.data[b]
                     = RMul(Row(input.att, b)[1], input.lengths.data[b])

C5_Witness ==
    /\ last.op = "compute_projection_values"
    /\ input.num_points = 3
    /\ input.att.shape[1] = 2
    /\ RowConstant(input.att, 1) /\ RowConstant(input.att, 2)
    /\ Row(input.att, 1)[1] # Row(input.att, 2)[1]
    /\ input.lengths.data = << <<1, 1>>, <<2, 1>> >>
    /\ last.fwd.out.data = << <<1, 3>>, <<4, 1>> >>

\* C6: forward keeps the leading dimensions of its coordinate input: points
\* of shape [B, R, 3] give an output of shape [B, R, 1], points of shape
\* [B, 3] give [B, 1]; a higher-rank input reaches the layer stack as one
\* row per point.
C6_ForwardShape ==
    (last.op = "forward" /\ last.outcome = "ok") =>
        LET n == Len(last.pts_shape)
        IN /\ last.pts_shape[n] = 3
           /\ last.fwd.out.shape = SubSeq(last.pts_shape, 1, n - 1) \o <<1>>
           /\ last.fwd.feat.shape[1] = Prod(SubSeq(last.pts_shape, 1, n - 1))

C6_Witness ==
    /\ last.op = "forward"
    /\ last.outcome = "ok"
    /\ last.pts_shape = <<2, 3, 3>>
    /\ last.fwd.out.shape = <<2, 3, 1>>

\* the density the layer stack returned for sample i of ray b
Density(b, i) ==
    last.fwd.out.data[(b - 1) * last.pts_shape[2] + i]

ExpectedDataLoss ==
    LET B == last.pts_shape[1]
        R == last.pts_shape[2]
        L == ray_lengths(input.batch.points)
        hat(b) == RSum([i \in 1..R |->
                           RDiv(RMul(Density(b, i), L.data[b]), <<R, 1>>)])
        err(b) == RSub(hat(b), input.batch.target.data[b])
    IN RDiv(RSum([b \in 1..B |-> RMul(err(b), err(b))]), <<B, 1>>)

\* adjacent pairs (b, i), (b, i + 1) of one ray only
ExpectedSmoothness ==
    LET B == last.pts_shape[1]
        R == last.pts_shape[2]
        pairs == [j \in 1..(B * (R - 1)) |->
                     LET b == (j - 1) \div (R - 1) + 1
                         i == ((j - 1) % (R - 1)) + 1
                     IN RAbs(RSub(Density(b, i + 1), Density(b, i)))]
    IN RDiv(RSum(pairs), <<B * (R - 1), 1>>)

ExpectedImagefitLoss ==
    LET n == Len(last.fwd.out.data)
        err(j) == RSub(last.fwd.out.data[j], input.batch.target.data[j])
    IN RDiv(RSum([j \in 1..n |-> RMul(err(j), err(j))]), <<n, 1>>)

\* C8: a projection training step returns data_loss + regularization_weight
\* * smoothness_loss, the smoothness being the mean absolute difference of
\* adjacent samples of the same ray; an imagefit training step returns the
\* mean squared error alone.
C8_TrainingLoss ==
    (last.op = "training_step" /\ last.outcome = "ok") =>
        IF args.imagefit_mode
        THEN /\ last.ret = ExpectedImagefitLoss
             /\ last.logged = {<<"train/loss", ExpectedImagefitLoss>>}
        ELSE /\ last.ret = RAdd(ExpectedDataLoss,
                                RMul(args.regularization_weight,
                                     ExpectedSmoothness))
             /\ <<"train/loss", ExpectedDataLoss>> \in last.logged
             /\ <<"train/l1_regularization", ExpectedSmoothness>>
                   \in last.logged

C8_Witness ==
    /\ last.op = "training_step"
    /\ last.outcome = "ok"
    /\ ~args.imagefit_mode
    /\ last.pts_shape = <<2, 2, 3>>
    /\ Density(1, 2) # Density(2, 1)
    /\ Density(1, 1) # Density(1, 2)
    /\ ~IsNaN(last.ret)
    /\ ExpectedSmoothness # <<0, 1>>
    /\ ExpectedDataLoss # <<0, 1>>

-----------------------------------------------------------------------------
(* Statements the handlers do not satisfy (Spec) *)

IsStep == last.op \in {"training_step", "validation_step"}

IsEpochEnd == last.op = "on_validation_epoch_end"

\* C1: after on_validation_epoch_end, in either mode and after any number of
\* validation steps, both validation buffers are empty.
C1_BuffersCleared ==
    IsEpochEnd => /\ self.validation_step_outputs = <<>>
                  /\ self.validation_step_gt = <<>>

\* C2: in an imagefit step every row handed to the layer stack carries the
\* latent code of the volume index of the sample owning the row's point.
C2_LatentRowsAligned ==
    (IsStep /\ args.imagefit_mode /\ last.fwd.called) =>
        /\ last.fwd.ok
        /\ \A j \in 1..last.fwd.feat.shape[1] :
              LET row   == Row(last.fwd.feat, j)
                  owner == row[Len(row)][2]
              IN \A k \in 1..args.latent_size :
                    row[k] = <<"z", last.idxs[owner][2], k, 0>>

LoggedKeys == {kv[1] : kv \in last.logged}

\* C3: an imagefit validation step completes and logs val/loss only.
C3_ImagefitValidationLogs ==
    (last.op = "validation_step" /\ args.imagefit_mode) =>
        /\ last.outcome = "ok"
        /\ LoggedKeys = {"val/loss"}

\* C9: whenever a handler evaluates the forward model, the rows handed to
\* the first linear layer have the width that layer was built with (encoder
\* output_dim or 3, plus latent_size in imagefit mode only), and in
\* projection mode nothing is concatenated to the coordinates, in the steps
\* and in the dense reconstruction pass.
C9_FeatureWidth ==
    /\ self.mlp.children[1].in_f
          = (IF args.encoder # 0 THEN args.encoder ELSE 3)
            + (IF args.imagefit_mode THEN args.latent_size ELSE 0)
    /\ (IsStep /\ last.fwd.called) =>
          /\ last.fwd.ok
          /\ last.fwd.feat.shape[2] = self.mlp.children[1].in_f
          /\ ~args.imagefit_mode => last.fwd.vecs_cols = 0
    /\ (IsEpochEnd /\ last.grid.built) => last.outcome = "ok"

\* C10: the dense reconstruction grid has one point per voxel of the volume
\* (per-axis resolution D0, D1, D2), every grid point is evaluated once and
\* the outputs are assembled into a tensor of the volume's shape.
C10_DenseGrid ==
    (IsEpochEnd /\ last.grid.built) =>
        /\ last.grid.axes = data.vol_shape
        /\ last.grid.points = Prod(data.vol_shape)
        /\ last.grid.evaluated = last.grid.points
        /\ last.grid.assembled

====
